---- MODULE Spec2Model ----
(***************************************************************************)
(* Model of the weewx-influx uploader (bin/user/influx.py): the field      *)
(* template resolver, the line-protocol encoder, the Influx service        *)
(* constructor with its two event handlers, and the InfluxThread worker    *)
(* run by the RESTThread loop it inherits from weewx.restx.                *)
(*                                                                         *)
(* Python values are tagged records: [t |-> "int", i |-> n],               *)
(* [t |-> "float", f |-> tenths], [t |-> "str", s |-> text] and            *)
(* [t |-> "None"].  A dict is a sequence of <<key, value>> pairs with      *)
(* distinct keys (insertion order is part of a dict's value).  A call      *)
(* that may raise returns [ok |-> TRUE, ...] or [ok |-> FALSE, exc |-> e]. *)
(***************************************************************************)
EXTENDS Integers, Sequences, FiniteSets, TLC

(***************************************************************************)
(* Python values                                                           *)
(***************************************************************************)
None == [t |-> "None"]
IntV(n) == [t |-> "int", i |-> n]
FloatV(tenths) == [t |-> "float", f |-> tenths]
StrV(text) == [t |-> "str", s |-> text]

\* absent optional string (a unit name that is None)
NoUnit == "<None>"

Abs(n) == IF n < 0 THEN -n ELSE n

\* decimal text of a number given in tenths, as repr() prints a float
TenthsText(n) ==
    (IF n < 0 THEN "-" ELSE "") \o ToString(Abs(n) \div 10) \o "." \o ToString(Abs(n) % 10)

\* text of a number truncated toward zero, as "%d" prints it
TruncText(n) ==
    LET q == Abs(n) \div 10
    IN  (IF n < 0 /\ q > 0 THEN "-" ELSE "") \o ToString(q)

\* str(value)
PyStr(v) ==
    CASE v.t = "int" -> ToString(v.i)
      [] v.t = "float" -> TenthsText(v.f)
      [] v.t = "str" -> v.s
      [] OTHER -> "None"

Ok(v) == [ok |-> TRUE, v |-> v]
Raise(e) == [ok |-> FALSE, exc |-> e]

\* fmt % value for the format strings a configuration may carry
PyFormat(fmt, v) ==
    CASE fmt = "%s" -> Ok(PyStr(v))
      [] fmt = "%.1f" ->
            IF v.t = "int" THEN Ok(TenthsText(v.i * 10))
            ELSE IF v.t = "float" THEN Ok(TenthsText(v.f))
            ELSE Raise("TypeError")
      [] fmt = "%d" ->
            IF v.t = "int" THEN Ok(ToString(v.i))
            ELSE IF v.t = "float" THEN Ok(TruncText(v.f))
            ELSE Raise("TypeError")
      [] OTHER -> Raise("ValueError")

(***************************************************************************)
(* dicts as sequences of <<key, value>> pairs                              *)
(***************************************************************************)
Keys(d) == [n \in 1..Len(d) |-> d[n][1]]
KeySet(d) == {d[n][1] : n \in 1..Len(d)}
Has(d, k) == k \in KeySet(d)
Get(d, k) == d[CHOOSE n \in 1..Len(d) : d[n][1] = k][2]

RECURSIVE Without(_, _)
\* the dict after del d[k]
Without(d, k) ==
    IF d = <<>> THEN <<>>
    ELSE IF Head(d)[1] = k THEN Without(Tail(d), k)
    ELSE <<Head(d)>> \o Without(Tail(d), k)

\* the dict after d[k] = v (an existing key keeps its position)
Put(d, k, v) ==
    IF Has(d, k) THEN [n \in 1..Len(d) |-> IF d[n][1] = k THEN <<k, v>> ELSE d[n]]
    ELSE Append(d, <<k, v>>)

RECURSIVE Update(_, _)
\* the dict after d.update(e)
Update(d, e) == IF e = <<>> THEN d ELSE Update(Put(d, Head(e)[1], Head(e)[2]), Tail(e))

RECURSIVE Join(_, _)
\* sep.join(items)
Join(sep, items) ==
    IF items = <<>> THEN ""
    ELSE IF Len(items) = 1 THEN items[1]
    ELSE items[1] \o sep \o Join(sep, Tail(items))

(***************************************************************************)
(* weewx.units as the encoder uses it: the standard unit of an observation *)
(* in a unit system, and convert()                                         *)
(***************************************************************************)
US == 1
METRIC == 16

\* weewx.units.obs_group_dict.get(obs_type)
ObsGroup(obs) ==
    CASE obs \in {"outTemp", "inTemp"} -> "group_temperature"
      [] obs = "outHumidity" -> "group_percent"
      [] obs = "windSpeed" -> "group_speed"
      [] obs = "windDir" -> "group_direction"
      [] obs = "dateTime" -> "group_time"
      [] obs = "interval" -> "group_interval"
      [] OTHER -> NoUnit

\* StdUnitConverters[unit_system].group_unit_dict.get(group)
GroupUnit(us, group) ==
    CASE group = "group_temperature" -> IF us = US THEN "degree_F" ELSE "degree_C"
      [] group = "group_percent" -> "percent"
      [] group = "group_speed" -> IF us = US THEN "mile_per_hour" ELSE "km_per_hour"
      [] group = "group_direction" -> "degree_compass"
      [] group = "group_time" -> "unix_epoch"
      [] group = "group_interval" -> "minute"
      [] OTHER -> NoUnit

\* getStandardUnitType(unit_system, obs_key): <<unit, group>>, (None, None)
\* for an observation without a group; KeyError for an unknown unit system
getStandardUnitType(unit_system, obs_key) ==
    IF unit_system = None THEN Ok(<<NoUnit, NoUnit>>)
    ELSE IF unit_system.t # "int" \/ unit_system.i \notin {US, METRIC} THEN Raise("KeyError")
    ELSE Ok(<<GroupUnit(unit_system.i, ObsGroup(obs_key)), ObsGroup(obs_key)>>)

\* the pairs <<from, to>> conversionDict has a function for
ConversionPairs == {<<"degree_F", "degree_C">>, <<"degree_C", "degree_F">>}

\* conversionDict[from][to](x), x in tenths; the result is a float.  The
\* records of the model carry temperatures whose conversion is exact.
ConversionFunc(from, to, tenths) ==
    IF from = "degree_F" THEN ((tenths - 320) * 5) \div 9
    ELSE (tenths * 9) \div 5 + 320

\* convert((value, from_unit, from_group), to_units)[0]
convert(value, from_unit, to_units) ==
    IF from_unit = to_units THEN Ok(value)
    ELSE IF <<from_unit, to_units>> \notin ConversionPairs THEN Raise("KeyError")
    ELSE IF value = None THEN Ok(None)
    ELSE IF value.t = "int" THEN Ok(FloatV(ConversionFunc(from_unit, to_units, value.i * 10)))
    ELSE IF value.t = "float" THEN Ok(FloatV(ConversionFunc(from_unit, to_units, value.f)))
    ELSE Raise("TypeError")

(***************************************************************************)
(* Field template resolver                                                 *)
(***************************************************************************)
\* UNIT_REDUCTIONS.get(unit_type, unit_type)
UNIT_REDUCTIONS(unit_type) ==
    CASE unit_type = "degree_F" -> "F"
      [] unit_type = "degree_C" -> "C"
      [] unit_type = "inch" -> "in"
      [] unit_type \in {"mile_per_hour", "mile_per_hour2"} -> "mph"
      [] unit_type \in {"km_per_hour", "km_per_hour2"} -> "kph"
      [] unit_type \in {"knot", "knot2"} -> "knot"
      [] unit_type \in {"meter_per_second", "meter_per_second2"} -> "mps"
      [] unit_type = "watt_per_meter_squared" -> "Wpm2"
      [] unit_type \in {"degree_compass", "uv_index", "percent", "unix_epoch"} -> NoUnit
      [] OTHER -> unit_type

\* the skip list without the unit-system identifier
OBS_TO_SKIP_NoUsUnits == {"dateTime", "interval"}

OBS_TO_SKIP == {"dateTime", "interval", "usUnits"}
MAX_SIZE == 1000000

\* a merge in which the entries of a win over those of b
Merge_KeepComputed(a, b) ==
    [x \in DOMAIN a \cup DOMAIN b |-> IF x \in DOMAIN a THEN a[x] ELSE b[x]]

\* a dict with string values as a TLA+ record: merge b over a
Merge(a, b) == [x \in DOMAIN a \cup DOMAIN b |-> IF x \in DOMAIN b THEN b[x] ELSE a[x]]
EmptyDict == [x \in {} |-> ""]

\* _get_template(obs_key, overrides, append_units_label, unit_system)
_get_template(obs_key, overrides, append_units_label, unit_system) ==
    LET std == getStandardUnitType(unit_system, obs_key)
        needStd == append_units_label /\ "units" \notin DOMAIN overrides
    IN  IF needStd /\ ~std.ok THEN Raise(std.exc)
        ELSE
          LET unit_type == IF "units" \in DOMAIN overrides THEN overrides.units ELSE std.v[1]
              label == UNIT_REDUCTIONS(unit_type)
              computed == IF append_units_label /\ label # NoUnit
                          THEN [name |-> obs_key \o "_" \o label]
                          ELSE EmptyDict
              given == [x \in DOMAIN overrides \cap {"name", "format", "units"} |-> overrides[x]]
          IN  Ok(Merge(computed, given))

(***************************************************************************)
(* Record encoder: methods of InfluxThread; self is the thread's           *)
(* configuration                                                           *)
(***************************************************************************)
\* record[key] as a call that may raise KeyError
Lookup(record, key) == IF Has(record, key) THEN Ok(Get(record, key)) ELSE Raise("KeyError")

RECURSIVE TemplatesFor(_, _, _, _)
\* the loop body of get_templates over the keys still to visit; source(key)
\* is the override dict the loop passes for key
TemplatesFor(self, keys, source, record) ==
    IF keys = <<>> THEN Ok(<<>>)
    ELSE
      LET key == Head(keys)
          units == Lookup(record, "usUnits")
          t == _get_template(key, source[key], self.append_units_label, units.v)
          rest == TemplatesFor(self, Tail(keys), source, record)
      IN  IF ~units.ok THEN Raise(units.exc)
          ELSE IF ~t.ok THEN Raise(t.exc)
          ELSE IF ~rest.ok THEN Raise(rest.exc)
          ELSE Ok(<<<<key, t.v>>>> \o rest.v)

\* self.inputs.get(key, {})
InputsGet(self, key) == IF Has(self.inputs, key) THEN Get(self.inputs, key) ELSE EmptyDict

\* get_templates(self, record): the templates, an ordered dict
get_templates(self, record) ==
    IF self.obs_to_upload \in {"all", "most"}
    THEN LET keys == SelectSeq(Keys(record),
                       LAMBDA k : ~(self.obs_to_upload = "most" /\ k \in OBS_TO_SKIP))
         IN  TemplatesFor(self, keys, [k \in KeySet(record) |-> InputsGet(self, k)], record)
    ELSE TemplatesFor(self, Keys(self.inputs),
                      [k \in KeySet(self.inputs) |-> Get(self.inputs, k)], record)

\* InfluxThread._float_to_string(template, value, key, unit_system)
_float_to_string(template, value, key, unit_system) ==
    LET fmt == IF "format" \in DOMAIN template THEN template.format ELSE "%s"
    IN  IF "units" \in DOMAIN template
        THEN LET std == getStandardUnitType(unit_system, key)
                 c == convert(value, std.v[1], template.units)
             IN  IF ~std.ok THEN Raise(std.exc)
                 ELSE IF ~c.ok THEN Raise(c.exc)
                 ELSE PyFormat(fmt, c.v)
        ELSE PyFormat(fmt, value)

\* the exceptions the try block of format_items catches
CaughtInFormatItems == {"TypeError", "ValueError"}

\* the body of the try block of format_items for one template: the line or
\* the name=value pair it appends
FormatItem(self, key, template, tags, record) ==
    LET value == Lookup(record, key)
        units == Lookup(record, "usUnits")
        s == _float_to_string(template, value.v, key, units.v)
        name == IF "name" \in DOMAIN template THEN template.name ELSE key
        dateTime == Lookup(record, "dateTime")
    IN  IF ~value.ok THEN Raise(value.exc)
        ELSE IF ~units.ok THEN Raise(units.exc)
        ELSE IF ~s.ok THEN Raise(s.exc)
        ELSE IF self.line_format = "multi-line-dotted"
        THEN IF ~dateTime.ok THEN Raise(dateTime.exc)
             ELSE Ok(self.measurement \o "." \o name \o tags \o " value=" \o s.v
                       \o " " \o PyStr(dateTime.v))
        ELSE IF self.line_format = "multi-line"
        THEN IF ~dateTime.ok THEN Raise(dateTime.exc)
             ELSE Ok(name \o tags \o " value=" \o s.v \o " " \o PyStr(dateTime.v))
        ELSE Ok(name \o "=" \o s.v)

RECURSIVE format_items(_, _, _, _)
\* format_items(self, templates, tags, record): the list data
format_items(self, templates, tags, record) ==
    IF templates = <<>> THEN Ok(<<>>)
    ELSE
      LET item == FormatItem(self, Head(templates)[1], Head(templates)[2], tags, record)
          rest == format_items(self, Tail(templates), tags, record)
      IN  IF ~item.ok /\ item.exc \notin CaughtInFormatItems THEN Raise(item.exc)
          ELSE IF ~rest.ok THEN Raise(rest.exc)
          ELSE IF ~item.ok THEN Ok(rest.v)
          ELSE Ok(<<item.v>> \o rest.v)

\* a get_post_body that leaves the binding in the record
PopBinding_Keep(record) == record

\* the record as get_post_body leaves it: record.pop("binding", None)
PopBinding(record) == Without(record, "binding")

\* a tag segment with the static tags ahead of the binding tag
TagSegment_StaticFirst(self, record) ==
    LET binding == IF Has(record, "binding") THEN Get(record, "binding") ELSE None
        t1 == IF self.tags # "" THEN "," \o self.tags ELSE ""
    IN  IF binding # None THEN t1 \o ",binding=" \o PyStr(binding) ELSE t1

\* the tag segment get_post_body builds
TagSegment(self, record) ==
    LET binding == IF Has(record, "binding") THEN Get(record, "binding") ELSE None
        t1 == IF binding # None THEN ",binding=" \o PyStr(binding) ELSE ""
    IN  IF self.tags # "" THEN t1 \o "," \o self.tags ELSE t1

\* get_post_body(self, record): [ok, v |-> payload, record |-> the record
\* object after the call] or [ok |-> FALSE, exc, record]
get_post_body(self, record) ==
    LET tags == TagSegment(self, record)
        popped == PopBinding(record)
        templates == get_templates(self, popped)
        data == format_items(self, templates.v, tags, popped)
        dateTime == Lookup(popped, "dateTime")
    IN  IF ~templates.ok THEN [ok |-> FALSE, exc |-> templates.exc, record |-> popped]
        ELSE IF ~data.ok THEN [ok |-> FALSE, exc |-> data.exc, record |-> popped]
        ELSE IF self.line_format \in {"multi-line", "multi-line-dotted"}
        THEN [ok |-> TRUE, v |-> Join("\n", data.v), record |-> popped]
        ELSE IF ~dateTime.ok THEN [ok |-> FALSE, exc |-> dateTime.exc, record |-> popped]
        ELSE [ok |-> TRUE,
              v |-> self.measurement \o tags \o " " \o Join(",", data.v) \o " "
                      \o PyStr(dateTime.v),
              record |-> popped]

(***************************************************************************)
(* State                                                                   *)
(***************************************************************************)
VARIABLES
    self,       \* the InfluxThread's attributes (its configuration)
    rec0,       \* encoder runs: the record as it was handed to the encoder
    rec,        \* encoder runs: the record object, as the calls have left it
    calls,      \* encoder runs: the results of the get_post_body calls on rec
    resolve_args, \* resolver runs: the arguments of the _get_template call
    resolved,   \* resolver runs: what the _get_template call returned, None before
    cfg_dict,   \* the [StdRESTful][[Influx]] section handed to Influx.__init__
    svc,        \* the Influx service object: how __init__ ended and what it set up
    queue,      \* data_queue: the records (and the sentinel) put and not yet got
    pc,         \* where the worker thread is: "get", "check", "sending", "received",
                \* "sleeping", "done"
    cur,        \* the worker's _record, None when it holds none
    count,      \* the worker's _count in post_with_retries
    _response,  \* what the POST in hand came back with, None when there is none
    lastpost,   \* the worker's self.lastpost
    exit,       \* why run() returned: "", "sentinel", "exception"
    now,        \* time.time()
    host,       \* the host engine's thread: "running", "blocked", "crashed"
    nextId,     \* the number of the next record to be put on the queue
    sentinelAt, \* how many records were put before the sentinel, -1 before it is put
    dequeued,   \* the numbers of the records the worker got, in the order it got them
    fate,       \* record number -> what has become of the record
    attempts,   \* record number -> POSTs sent for the record
    putAfterExit \* a handler has put a record after run() had returned

encVars == <<rec0, rec, calls>>
resVars == <<resolve_args, resolved>>
ctorVars == <<cfg_dict, svc>>
workerVars == <<queue, pc, cur, count, _response, lastpost, exit, now, host, nextId, sentinelAt,
                dequeued, fate, attempts, putAfterExit>>
vars == <<self, rec0, rec, calls, resolve_args, resolved, cfg_dict, svc, queue, pc, cur, count, _response, lastpost, exit,
          now, host, nextId, sentinelAt, dequeued, fate, attempts, putAfterExit>>

(***************************************************************************)
(* Inputs of the encoder runs                                              *)
(***************************************************************************)
MaxCalls == 2

\* the record of test.py, in US units
TestFields ==
    << <<"dateTime", IntV(1700000000)>>, <<"usUnits", IntV(US)>>,
       <<"outTemp", FloatV(335)>>, <<"inTemp", FloatV(758)>>, <<"outHumidity", IntV(24)>> >>

EncRecords ==
    { TestFields,
      <<<<"binding", StrV("archive")>>>> \o TestFields,
      << <<"dateTime", IntV(1700000000)>>, <<"usUnits", IntV(US)>> >>,
      << <<"binding", StrV("loop")>>, <<"dateTime", IntV(1700000000)>>, <<"usUnits", IntV(US)>> >>,
      << <<"binding", StrV("loop")>>, <<"dateTime", IntV(1700000060)>>, <<"usUnits", IntV(METRIC)>>,
         <<"outTemp", None>>, <<"inTemp", IntV(10)>>, <<"note", StrV("N/A")>> >>,
      << <<"binding", StrV("archive")>>, <<"dateTime", IntV(1700000300)>>, <<"usUnits", IntV(US)>>,
         <<"interval", IntV(5)>>, <<"outHumidity", IntV(24)>>, <<"inTemp", IntV(50)>> >> }

\* [[inputs]] sections: observation name -> name, format, units overrides
EncInputs ==
    { <<>>,
      << <<"outTemp", [units |-> "degree_C", format |-> "%.1f"]>> >>,
      << <<"outHumidity", [name |-> "humidity"]>>, <<"inTemp", EmptyDict>> >>,
      << <<"outHumidity", [units |-> "degree_C"]>> >>,
      << <<"inTemp", [format |-> "%z"]>>, <<"outHumidity", [format |-> "%d"]>> >>,
      << <<"outTemp", [name |-> "out temp"]>> >> }

\* the defaults of InfluxThread.__init__ for the attributes the worker reads
WorkerDefaults == [max_tries |-> 3, max_backlog |-> MAX_SIZE, stale |-> None,
                   post_interval |-> None, skip_upload |-> FALSE]

EncoderAttrs ==
    [measurement : {"record", "weather data"},
     tags : {"", "station=test"},
     obs_to_upload : {"all", "most", "none"},
     append_units_label : BOOLEAN,
     inputs : EncInputs,
     line_format : {"single-line", "multi-line", "multi-line-dotted"}]

\* a thread's attributes: the encoder's and the worker's
Thread(e, w) == [x \in DOMAIN e \cup DOMAIN w |-> IF x \in DOMAIN e THEN e[x] ELSE w[x]]

MaxRecords == 2

\* the parts of the state a run of another part leaves alone
EncIdle == rec0 = <<>> /\ rec = <<>> /\ calls = <<>>
ResIdle == resolve_args = EmptyDict /\ resolved = None
CtorIdle == cfg_dict = EmptyDict /\ svc = [state |-> "none"]
WorkerIdle ==
    /\ queue = <<>>
    /\ pc = "get"
    /\ cur = None
    /\ count = 0
    /\ _response = None
    /\ lastpost = 0
    /\ exit = ""
    /\ now = 0
    /\ host = "running"
    /\ nextId = 1
    /\ sentinelAt = -1
    /\ dequeued = <<>>
    /\ fate = [r \in 1..MaxRecords |-> "none"]
    /\ attempts = [r \in 1..MaxRecords |-> 0]
    /\ putAfterExit = FALSE

(***************************************************************************)
(* Encoder runs: get_post_body called on one record object                 *)
(***************************************************************************)
EncInit ==
    /\ self \in {Thread(e, WorkerDefaults) : e \in EncoderAttrs}
    /\ rec0 \in EncRecords
    /\ rec = rec0
    /\ calls = <<>>
    /\ CtorIdle
    /\ ResIdle
    /\ WorkerIdle

\* one call of get_post_body(rec); the call may change the record object
CallGetPostBody ==
    /\ Len(calls) < MaxCalls
    /\ LET r == get_post_body(self, rec)
       IN  /\ calls' = Append(calls, IF r.ok THEN [ok |-> TRUE, v |-> r.v]
                                      ELSE [ok |-> FALSE, exc |-> r.exc])
           /\ rec' = r.record
    /\ UNCHANGED <<self, resVars, rec0, ctorVars, workerVars>>

EncNext == CallGetPostBody

SpecEnc == EncInit /\ [][EncNext]_vars

(***************************************************************************)
(* Resolver runs: one call of _get_template                                *)
(***************************************************************************)
\* the override dicts of an [[inputs]] entry
ResolveOverrides ==
    { EmptyDict,
      [name |-> "temp"],
      [units |-> "degree_C"],
      [format |-> "%.1f"],
      [name |-> "temp", units |-> "degree_C"],
      [units |-> "degree_F", format |-> "%d"],
      [name |-> "temp", format |-> "%.1f", units |-> "degree_C"] }

ResolveArgs ==
    [obs_key : {"outTemp", "outHumidity", "windSpeed", "windDir", "interval", "usUnits"},
     overrides : ResolveOverrides,
     append_units_label : BOOLEAN,
     unit_system : {IntV(US), IntV(METRIC)}]

ResInit ==
    /\ resolve_args \in ResolveArgs
    /\ resolved = None
    /\ self = Thread(CHOOSE e \in EncoderAttrs : TRUE, WorkerDefaults)
    /\ EncIdle
    /\ CtorIdle
    /\ WorkerIdle

\* the call _get_template(obs_key, overrides, append_units_label, unit_system)
Resolve ==
    /\ resolved = None
    /\ resolved' = _get_template(resolve_args.obs_key, resolve_args.overrides,
                                 resolve_args.append_units_label, resolve_args.unit_system)
    /\ UNCHANGED <<self, resolve_args, encVars, ctorVars, workerVars>>

ResNext == Resolve

SpecResolve == ResInit /\ [][ResNext]_vars

\* template.get("name", key), template.get("format", "%s") and
\* template.get("units") as format_items and _float_to_string read them
ResolvedName(t, key) == IF "name" \in DOMAIN t THEN t.name ELSE key
ResolvedFormat(t) == IF "format" \in DOMAIN t THEN t.format ELSE "%s"
ResolvedUnits(t) == IF "units" \in DOMAIN t THEN t.units ELSE NoUnit

\* the suffix for a unit: its abbreviation, "" for a dimensionless unit or
\* no unit
SuffixOf(unit) ==
    CASE unit = "degree_F" -> "F"
      [] unit = "degree_C" -> "C"
      [] unit = "mile_per_hour" -> "mph"
      [] unit = "km_per_hour" -> "kph"
      [] unit \in {"percent", "degree_compass", NoUnit} -> ""
      [] OTHER -> unit

\* the standard unit of the fields of the resolver runs
StandardUnit(obs_key, unit_system) ==
    CASE obs_key = "outTemp" -> IF unit_system = IntV(US) THEN "degree_F" ELSE "degree_C"
      [] obs_key = "windSpeed" -> IF unit_system = IntV(US) THEN "mile_per_hour" ELSE "km_per_hour"
      [] obs_key = "outHumidity" -> "percent"
      [] obs_key = "windDir" -> "degree_compass"
      [] obs_key = "interval" -> "minute"
      [] OTHER -> NoUnit

WithSuffix(key, suffix) == IF suffix = "" THEN key ELSE key \o "_" \o suffix

\* format and target unit are the overrides when given, else the generic
\* format and no conversion
FormatAndUnitsFromOverrides ==
    LET o == resolve_args.overrides
    IN  /\ ResolvedFormat(resolved.v) = (IF "format" \in DOMAIN o THEN o.format ELSE "%s")
        /\ ResolvedUnits(resolved.v) = (IF "units" \in DOMAIN o THEN o.units ELSE NoUnit)

\* C16 as stated: the name is the override name when given; else, with the
\* append-units flag on and no units override, key_<abbreviation of the
\* standard unit> (no suffix for a dimensionless unit); else the key.
C16_TemplateResolution ==
    resolved # None =>
        LET a == resolve_args
            o == a.overrides
        IN  /\ resolved.ok
            /\ ResolvedName(resolved.v, a.obs_key) =
                   (IF "name" \in DOMAIN o THEN o.name
                    ELSE IF a.append_units_label /\ "units" \notin DOMAIN o
                    THEN WithSuffix(a.obs_key, SuffixOf(StandardUnit(a.obs_key, a.unit_system)))
                    ELSE a.obs_key)
            /\ FormatAndUnitsFromOverrides

\* C16 amended: the name is the override name when given; else, with the
\* append-units flag on, key_<abbreviation> of the units override when one
\* is given and of the field's standard unit otherwise (a unit without an
\* abbreviation is appended unabbreviated, a dimensionless unit or a field
\* without standard unit gets no suffix); else the key.
C16_TemplateResolutionWithUnitsOverride ==
    resolved # None =>
        LET a == resolve_args
            o == a.overrides
        IN  /\ resolved.ok
            /\ ResolvedName(resolved.v, a.obs_key) =
                   (IF "name" \in DOMAIN o THEN o.name
                    ELSE IF a.append_units_label /\ "units" \in DOMAIN o
                    THEN WithSuffix(a.obs_key, SuffixOf(o.units))
                    ELSE IF a.append_units_label
                    THEN WithSuffix(a.obs_key, SuffixOf(StandardUnit(a.obs_key, a.unit_system)))
                    ELSE a.obs_key)
            /\ FormatAndUnitsFromOverrides

\* C16 witness: outTemp resolved in US units with the append-units flag on
\* and a units override degree_C and no name override: the name is outTemp_C
C16_Witness ==
    /\ resolved # None
    /\ resolved.ok
    /\ resolve_args.obs_key = "outTemp"
    /\ resolve_args.unit_system = IntV(US)
    /\ resolve_args.append_units_label
    /\ resolve_args.overrides = [units |-> "degree_C"]
    /\ resolved.v = [name |-> "outTemp_C", units |-> "degree_C"]

(***************************************************************************)
(* Properties of the encoder                                               *)
(***************************************************************************)
\* C3: no exception leaves get_post_body: a field that cannot be looked
\* up, converted or formatted is skipped and every call returns a payload.
C3_EncodingNeverRaises == \A n \in DOMAIN calls : calls[n].ok

\* C4: two calls of get_post_body on the same record object return the same
\* payload.
C4_EncodingIdempotent == Len(calls) >= 2 => calls[1] = calls[2]

\* the fields the selection mode selects for a record
SelectedFields(record) ==
    IF self.obs_to_upload = "all" THEN KeySet(record)
    ELSE IF self.obs_to_upload = "most" THEN KeySet(record) \ OBS_TO_SKIP
    ELSE KeySet(self.inputs)

\* a selected field is convertible when it is in the record and its value
\* converts and formats under the field's template
ConvertedField(record, key) ==
    LET o == IF self.obs_to_upload \in {"all", "most"} THEN InputsGet(self, key)
             ELSE Get(self.inputs, key)
        t == _get_template(key, o, self.append_units_label, Get(record, "usUnits"))
    IN  IF Has(record, key) /\ t.ok
        THEN FormatItem(self, key, t.v, TagSegment(self, rec0), record)
        ELSE Raise("KeyError")

\* the M items of the claim: the convertible selected fields, in the
\* insertion order of the record's keys
ConvertibleInRecordOrder(record) ==
    LET keys == SelectSeq(Keys(record),
                  LAMBDA k : k \in SelectedFields(record) /\ ConvertedField(record, k).ok)
    IN  [n \in 1..Len(keys) |-> ConvertedField(record, keys[n]).v]

\* the payload assembled from a list of items
Assembled(record, items) ==
    IF self.line_format \in {"multi-line", "multi-line-dotted"} THEN Join("\n", items)
    ELSE self.measurement \o TagSegment(self, rec0) \o " " \o Join(",", items) \o " "
           \o PyStr(Get(record, "dateTime"))

\* C6: the payload holds exactly the M convertible fields of the N selected
\* ones, as name=value pairs or lines, in the insertion order of the
\* record's keys.
C6_ConvertiblePairsInRecordOrder ==
    calls # <<>> =>
        /\ calls[1].ok
        /\ calls[1].v = Assembled(PopBinding(rec0), ConvertibleInRecordOrder(PopBinding(rec0)))

\* a record with the reserved metadata fields and no data field
MetadataOnly(record) ==
    /\ KeySet(record) \subseteq {"dateTime", "usUnits", "binding"}
    /\ {"dateTime", "usUnits"} \subseteq KeySet(record)

\* measurement, tag segment, an empty value segment and the timestamp
EmptyValueLine(record) ==
    self.measurement \o TagSegment(self, record) \o " " \o "" \o " "
      \o PyStr(Get(record, "dateTime"))

\* C7 as stated: in every line format and selection mode a metadata-only
\* record encodes to measurement, tag segment, an empty value segment and
\* the timestamp.
C7_MetadataOnlyAlwaysEmptyValues ==
    (calls # <<>> /\ MetadataOnly(rec0)) =>
        (calls[1].ok /\ calls[1].v = EmptyValueLine(rec0))

\* C7 amended: a metadata-only record encodes to measurement, tag segment,
\* an empty value segment and the timestamp in the single-line format when
\* the mode is most or an empty explicit selection; in the multi-line
\* formats the payload is then the empty string; in mode all dateTime and
\* usUnits are encoded as data fields.
C7_MetadataOnlyPayload ==
    (calls # <<>> /\ MetadataOnly(rec0)) =>
        LET single == self.line_format \notin {"multi-line", "multi-line-dotted"}
            ts == PyStr(Get(rec0, "dateTime"))
            us == PyStr(Get(rec0, "usUnits"))
            nothingSelected == \/ self.obs_to_upload = "most"
                               \/ (self.obs_to_upload # "all" /\ self.inputs = <<>>)
        IN  /\ (nothingSelected /\ single) =>
                   (calls[1].ok /\ calls[1].v = EmptyValueLine(rec0))
            /\ (nothingSelected /\ ~single) => (calls[1].ok /\ calls[1].v = "")
            /\ (self.obs_to_upload = "all" /\ single) =>
                   /\ calls[1].ok
                   /\ calls[1].v = self.measurement \o TagSegment(self, rec0) \o " dateTime="
                                     \o ts \o ",usUnits=" \o us \o " " \o ts

\* C7 witness: the metadata-only loop record was encoded in mode most on a
\* single line
C7_Witness ==
    /\ MetadataOnly(rec0)
    /\ self.obs_to_upload = "most"
    /\ calls # <<>>
    /\ calls[1].ok
    /\ calls[1].v = "record,binding=loop,station=test  1700000000"

\* the tag segment as C13 words it, for the record handed to the encoder
ExpectedTagSegment ==
    (IF Has(rec0, "binding") THEN ",binding=" \o Get(rec0, "binding").s ELSE "")
      \o (IF self.tags # "" THEN "," \o self.tags ELSE "")

\* the comma-joined name=value pairs of the record handed to the encoder
JoinedPairs ==
    LET popped == PopBinding(rec0)
    IN  Join(",", format_items(self, get_templates(self, popped).v, ExpectedTagSegment, popped).v)

\* C13: the tag segment is ",binding=<loop|archive>" when the record
\* carried a binding, followed by "," and the static tags when configured,
\* and is empty exactly when there is neither; a single-line payload is
\* measurement, tag segment, " ", the comma-joined pairs, " " and the
\* record's dateTime; the record of test.py encodes to the payload the
\* specification gives.
C13_TagSegmentAndSingleLine ==
    calls # <<>> =>
        /\ TagSegment(self, rec0) = ExpectedTagSegment
        /\ Has(rec0, "binding") => Get(rec0, "binding").s \in {"loop", "archive"}
        /\ ExpectedTagSegment = "" <=> (~Has(rec0, "binding") /\ self.tags = "")
        /\ (calls[1].ok /\ self.line_format = "single-line") =>
               calls[1].v = self.measurement \o ExpectedTagSegment \o " " \o JoinedPairs \o " "
                              \o PyStr(Get(rec0, "dateTime"))
        /\ ( /\ rec0 = <<<<"binding", StrV("archive")>>>> \o TestFields
             /\ self.obs_to_upload = "most"
             /\ self.append_units_label
             /\ self.inputs = <<>>
             /\ self.tags = "station=test"
             /\ self.measurement = "record"
             /\ self.line_format = "single-line" ) =>
               calls[1] = [ok |-> TRUE,
                           v |-> "record,binding=archive,station=test outTemp_F=33.5,inTemp_F=75.8,outHumidity=24 1700000000"]

\* C13 witness: the archive record of test.py was encoded on a single line
\* with the static tag station=test
C13_Witness ==
    /\ calls # <<>>
    /\ calls[1].ok
    /\ Has(rec0, "binding")
    /\ self.tags = "station=test"
    /\ calls[1].v = "record,binding=archive,station=test outTemp_F=33.5,inTemp_F=75.8,outHumidity=24 1700000000"

\* the keys of the record handed to the encoder for which a name=value pair
\* or a line is emitted
EmittedKeys ==
    LET popped == PopBinding(rec0)
        templates == get_templates(self, popped).v
    IN  {templates[n][1] : n \in {i \in DOMAIN templates :
            FormatItem(self, templates[i][1], templates[i][2], TagSegment(self, rec0), popped).ok}}

\* C15 as stated: in every selection mode no pair or line is emitted for
\* dateTime, usUnits or binding.
C15_ReservedNeverEmitted ==
    (calls # <<>> /\ calls[1].ok) => EmittedKeys \cap {"dateTime", "usUnits", "binding"} = {}

\* C15 amended: binding is taken out of the record before the fields are
\* iterated and is never emitted as a field; in mode most no pair is
\* emitted for dateTime, usUnits or interval; in mode all dateTime and
\* usUnits are emitted as fields like every other key of the record; with
\* an explicit selection only keys of the inputs table are emitted.
C15_ReservedFieldsByMode ==
    (calls # <<>> /\ calls[1].ok) =>
        /\ "binding" \notin EmittedKeys
        /\ self.obs_to_upload = "most" =>
               EmittedKeys \cap {"dateTime", "usUnits", "interval"} = {}
        /\ self.obs_to_upload = "all" => {"dateTime", "usUnits"} \subseteq EmittedKeys
        /\ self.obs_to_upload = "none" => EmittedKeys \subseteq KeySet(self.inputs)
        /\ ( /\ rec0 = <<<<"binding", StrV("archive")>>>> \o TestFields
             /\ self.obs_to_upload = "all"
             /\ self.append_units_label
             /\ self.inputs = <<>>
             /\ self.tags = ""
             /\ self.measurement = "record"
             /\ self.line_format = "single-line" ) =>
               calls[1].v = "record,binding=archive dateTime=1700000000,usUnits=1,outTemp_F=33.5,inTemp_F=75.8,outHumidity=24 1700000000"

\* C15 witness: the archive record of test.py was encoded in mode all and
\* the payload has dateTime and usUnits among its fields, and no binding
C15_Witness ==
    /\ calls # <<>>
    /\ calls[1].ok
    /\ self.obs_to_upload = "all"
    /\ Has(rec0, "binding")
    /\ calls[1].v = "record,binding=archive dateTime=1700000000,usUnits=1,outTemp_F=33.5,inTemp_F=75.8,outHumidity=24 1700000000"

\* the number of spaces of a text that no backslash escapes
UnescapedSpaces(text) ==
    Cardinality({i \in 1..Len(text) :
        /\ SubSeq(text, i, i) = " "
        /\ (i = 1 \/ SubSeq(text, i - 1, i - 1) # "\\")})

\* the number of lines of the payload of the record handed to the encoder
PayloadLines ==
    LET popped == PopBinding(rec0)
    IN  IF self.line_format \in {"multi-line", "multi-line-dotted"}
        THEN Len(format_items(self, get_templates(self, popped).v, TagSegment(self, rec0),
                              popped).v)
        ELSE 1

\* C17: whatever the measurement name, the static tags and the name
\* overrides, the only unescaped spaces of a payload line are the two
\* separators between tag segment, field segment and timestamp.
C17_NoUnescapedWhitespace ==
    (calls # <<>> /\ calls[1].ok) => UnescapedSpaces(calls[1].v) = 2 * PayloadLines

(***************************************************************************)
(* The Influx service constructor.  A configuration section is a record    *)
(* that says, for the options the constructor looks at, whether and how    *)
(* each is set ("absent" when it is not in the section).                   *)
(***************************************************************************)
CfgDicts ==
    [section : BOOLEAN,
     enable : {"absent", "true", "false"},
     database : {"absent", "replace_me", "weather"},
     server_url : {"absent", "https://influx.example"},
     host : {"absent", "localhost"},
     binding : {"absent", "loop", "archive", "loop,archive", "LOOP", "none"}]

\* the options of the section that are set
OptionsSet(cfg) == {k \in {"enable", "database", "server_url", "host", "binding"} : cfg[k] # "absent"}

NoSite == {"<None>"}

\* get_site_dict(cfg_dict, "Influx", "database"): the keys of the site dict,
\* or None when the section is missing, posting is not enabled, or the
\* required option database is missing or still "replace_me"
get_site_dict(cfg) ==
    IF ~cfg.section THEN NoSite
    ELSE IF cfg.enable = "false" THEN NoSite
    ELSE IF cfg.database \in {"absent", "replace_me"} THEN NoSite
    ELSE (OptionsSet(cfg) \ {"enable"}) \cup {"log_success", "log_failure"}

\* the keys Influx.__init__ gives a default
SiteDefaults == {"api_token", "tags", "line_format", "obs_to_upload", "append_units_label",
                 "augment_record", "measurement"}

\* the keyword parameters of InfluxThread.__init__, and those without default
ThreadParams ==
    {"server_url", "database", "api_token", "line_format", "measurement", "tags",
     "unit_system", "augment_record", "inputs", "obs_to_upload", "append_units_label",
     "skip_upload", "manager_dict", "post_interval", "max_backlog", "stale", "log_success",
     "log_failure", "timeout", "max_tries", "retry_wait"}
ThreadRequired == {"server_url", "database", "api_token"}

\* the events the service binds for a binding option: "loop" in
\* binding.lower() and "archive" in binding.lower()
BindingsOf(binding) ==
    CASE binding \in {"loop", "LOOP"} -> {"loop"}
      [] binding \in {"archive", "absent"} -> {"archive"}
      [] binding = "loop,archive" -> {"loop", "archive"}
      [] OTHER -> {}

\* a constructor that builds a queue for each binding
data_queue_PerBinding(binding) == IF binding = "loop" THEN 1 ELSE 2

\* the objects the constructor builds, by number: data_queue = Queue() and
\* data_thread = InfluxThread(data_queue, ...) are built once, whichever
\* binding they are then assigned for
data_queue(binding) == 1
data_thread(binding) == 1

\* bound: the events a handler is bound to; queues: the bindings whose
\* queue and thread attributes are set; loop_queue, archive_queue,
\* loop_thread, archive_thread: the object the attribute holds, 0 when the
\* attribute is not set
Service(state, exc, started, bound) ==
    [state |-> state, exc |-> exc, thread_started |-> started, bound |-> bound,
     queues |-> bound,
     loop_queue |-> IF "loop" \in bound THEN data_queue("loop") ELSE 0,
     loop_thread |-> IF "loop" \in bound THEN data_thread("loop") ELSE 0,
     archive_queue |-> IF "archive" \in bound THEN data_queue("archive") ELSE 0,
     archive_thread |-> IF "archive" \in bound THEN data_thread("archive") ELSE 0]

\* Influx.__init__(engine, cfg_dict): the service it leaves, or the exception
\* that leaves it
Influx__init__(cfg) ==
    LET site == get_site_dict(cfg)
        site_dict == (site \cup SiteDefaults) \ {"binding"}
    IN  IF site = NoSite THEN Service("disabled", "", FALSE, {})
        ELSE IF "server_url" \notin site_dict THEN Service("raised", "KeyError", FALSE, {})
        ELSE IF ~(site_dict \subseteq ThreadParams /\ ThreadRequired \subseteq site_dict)
        THEN Service("raised", "TypeError", FALSE, {})
        ELSE Service("started", "", TRUE, BindingsOf(cfg.binding))

(***************************************************************************)
(* Constructor runs                                                        *)
(***************************************************************************)
CtorInit ==
    /\ cfg_dict \in CfgDicts
    /\ svc = [state |-> "none"]
    /\ self = Thread(CHOOSE e \in EncoderAttrs : TRUE, WorkerDefaults)
    /\ EncIdle
    /\ ResIdle
    /\ WorkerIdle

\* the engine loads the service
Construct ==
    /\ svc.state = "none"
    /\ svc' = Influx__init__(cfg_dict)
    /\ UNCHANGED <<self, resVars, cfg_dict, encVars, workerVars>>

CtorNext == Construct

SpecCtor == CtorInit /\ [][CtorNext]_vars

\* a required option of the destination is missing from the configuration
MissingRequired(cfg) ==
    \/ ~cfg.section
    \/ cfg.database \in {"absent", "replace_me"}
    \/ cfg.server_url = "absent"

\* C5: with a required option missing the constructor returns normally, no
\* worker thread is started and no event handler is bound.
C5_MissingConfigDisables ==
    (svc.state # "none" /\ MissingRequired(cfg_dict)) =>
        (svc.state = "disabled" /\ ~svc.thread_started /\ svc.bound = {})

(***************************************************************************)
(* The worker thread and its producers.  The loop is RESTThread.run_loop   *)
(* (weewx.restx), which InfluxThread inherits; the hooks it calls are      *)
(* InfluxThread's.                                                         *)
(***************************************************************************)
MaxTries == 2
MaxNow == 1

\* a queue with room for fewer records than the engine dispatches
data_queue_maxsize_One == MaxRecords - 1

\* data_queue = Queue(): maxsize 0, a queue without capacity limit
data_queue_maxsize == 0

\* Queue.put(item) finds the queue full and blocks
QueueFull(q) == data_queue_maxsize > 0 /\ Len(q) >= data_queue_maxsize

\* Queue.put on a LIFO queue
QueuePut_Lifo(q, item) == <<item>> \o q

\* Queue.put(item) on the FIFO queue Queue() builds, when it does not block
QueuePut(q, item) == Append(q, item)

\* the value that ends the loop
Sentinel == None

\* the data fields of the events the engine dispatches: loop packets are
\* partial (no outTemp here), archive records are complete; a driver may
\* put any key in a packet, a key named binding included
PacketFields(binding) ==
    IF binding = "loop"
    THEN { << <<"outHumidity", IntV(24)>> >>,
           << <<"outHumidity", IntV(24)>>, <<"binding", StrV("wx_binding")>> >> }
    ELSE { << <<"outTemp", IntV(50)>>, <<"outHumidity", IntV(24)>> >> }

\* event.packet or event.record, stamped by the engine
EventData(ts, fields) == << <<"dateTime", IntV(ts)>>, <<"usUnits", IntV(US)>> >> \o fields

\* data = {"binding": binding}; data.update(event.packet)
BoundData(binding, packet) == Update(<< <<"binding", StrV(binding)>> >>, packet)

\* the state a finished step leaves unchanged on the producers' side
producerVars == <<queue, host, nextId, sentinelAt, putAfterExit, now>>

\* new_loop_packet and new_archive_record: the handler bound for binding
\* receives an event.  A queue item is the dict data; the model keeps with
\* it its number (id), the handler that put it (via) and the event's
\* mapping as the handler left it (event).
Handle(binding, packet) ==
    /\ host = "running"
    /\ binding \in svc.bound
    /\ nextId <= MaxRecords
    /\ IF binding \notin svc.queues
       THEN /\ host' = "crashed"
            /\ UNCHANGED <<queue, nextId, fate, putAfterExit>>
       ELSE IF QueueFull(queue)
       THEN /\ host' = "blocked"
            /\ UNCHANGED <<queue, nextId, fate, putAfterExit>>
       ELSE /\ queue' = QueuePut(queue, [id |-> nextId, via |-> binding, event |-> packet,
                                          data |-> BoundData(binding, packet)])
            /\ nextId' = nextId + 1
            /\ fate' = [fate EXCEPT ![nextId] = "queued"]
            /\ putAfterExit' = (putAfterExit \/ pc = "done")
            /\ host' = host
    /\ UNCHANGED <<self, resVars, encVars, ctorVars, pc, cur, count, _response, lastpost, exit, now,
                   sentinelAt, dequeued, attempts>>

new_loop_packet == \E f \in PacketFields("loop") : Handle("loop", EventData(now, f))

new_archive_record == \E f \in PacketFields("archive") : Handle("archive", EventData(now, f))

\* queue.put(None): the shutdown request
PutSentinel ==
    /\ host = "running"
    /\ sentinelAt = -1
    /\ IF QueueFull(queue)
       THEN host' = "blocked" /\ UNCHANGED <<queue, sentinelAt>>
       ELSE queue' = QueuePut(queue, Sentinel) /\ sentinelAt' = nextId - 1 /\ host' = host
    /\ UNCHANGED <<self, resVars, encVars, ctorVars, pc, cur, count, _response, lastpost, exit, now, nextId,
                   dequeued, fate, attempts, putAfterExit>>

\* time passes
Tick ==
    /\ now < MaxNow
    /\ now' = now + 1
    /\ UNCHANGED <<self, resVars, encVars, ctorVars, queue, pc, cur, count, _response, lastpost, exit, host,
                   nextId, sentinelAt, dequeued, fate, attempts, putAfterExit>>

\* a get that leaves the item on the queue
QueueGet_Peek ==
    /\ pc = "get"
    /\ queue # <<>>
    /\ queue' = queue
    /\ IF Head(queue) = None
       THEN /\ pc' = "done"
            /\ exit' = "sentinel"
            /\ UNCHANGED <<cur, dequeued, fate>>
       ELSE /\ pc' = "check"
            /\ cur' = Head(queue)
            /\ dequeued' = Append(dequeued, Head(queue).id)
            /\ fate' = [fate EXCEPT ![Head(queue).id] = "current"]
            /\ exit' = exit
    /\ UNCHANGED <<self, resVars, encVars, ctorVars, count, _response, lastpost, now, host, nextId,
                   sentinelAt, attempts, putAfterExit>>

\* _record = self.queue.get(); if _record is None: return
QueueGet ==
    /\ pc = "get"
    /\ queue # <<>>
    /\ queue' = Tail(queue)
    /\ IF Head(queue) = None
       THEN /\ pc' = "done"
            /\ exit' = "sentinel"
            /\ UNCHANGED <<cur, dequeued, fate>>
       ELSE /\ pc' = "check"
            /\ cur' = Head(queue)
            /\ dequeued' = Append(dequeued, Head(queue).id)
            /\ fate' = [fate EXCEPT ![Head(queue).id] = "current"]
            /\ exit' = exit
    /\ UNCHANGED <<self, resVars, encVars, ctorVars, count, _response, lastpost, now, host, nextId,
                   sentinelAt, attempts, putAfterExit>>

\* InfluxThread.get_record(record, dbmanager) of a thread run without a
\* database manager and without unit_system: the record object itself
get_record(thread, record) == record

\* the max_backlog InfluxThread.__init__ hands to RESTThread.__init__
max_backlog_Unlimited(thread) == MAX_SIZE

max_backlog(thread) == thread.max_backlog

\* skip_this_post without the test of the record's age
skip_this_post_NoStale(time_ts) ==
    IF self.post_interval # None /\ time_ts - lastpost < self.post_interval.i THEN "wait"
    ELSE "post"

\* RESTThread.skip_this_post(time_ts): "stale", "wait" or "post"
skip_this_post(time_ts) ==
    IF self.stale # None /\ now - time_ts > self.stale.i THEN "stale"
    ELSE IF self.post_interval # None /\ time_ts - lastpost < self.post_interval.i THEN "wait"
    ELSE "post"

\* the worker is done with record r and goes back to queue.get()
Finish(r, f) ==
    /\ pc' = "get"
    /\ cur' = None
    /\ count' = 0
    /\ fate' = [fate EXCEPT ![r] = f]

\* the rest of an iteration of run_loop up to the first POST: the backlog
\* test, skip_this_post, and process_record up to post_with_retries
CheckBacklog ==
    /\ pc = "check"
    /\ LET r == cur.id
           ts == Get(cur.data, "dateTime").i
           skip == skip_this_post(ts)
           body == get_post_body(self, get_record(self, cur.data))
       IN  IF Len(queue) > max_backlog(self)
           THEN Finish(r, "trimmed") /\ UNCHANGED <<lastpost, exit, attempts>>
           ELSE IF skip # "post"
           THEN Finish(r, skip) /\ UNCHANGED <<lastpost, exit, attempts>>
           ELSE /\ lastpost' = ts
                /\ IF ~body.ok
                   THEN /\ pc' = "done"
                        /\ exit' = "exception"
                        /\ cur' = None
                        /\ fate' = [fate EXCEPT ![r] = "crashed"]
                        /\ UNCHANGED <<count, attempts>>
                   ELSE IF self.skip_upload
                   THEN Finish(r, "skipped") /\ UNCHANGED <<exit, attempts>>
                   ELSE IF self.max_tries <= 0
                   THEN Finish(r, "abandoned") /\ UNCHANGED <<exit, attempts>>
                   ELSE /\ pc' = "sending"
                        /\ cur' = [cur EXCEPT !.data = body.record]
                        /\ count' = 0
                        /\ attempts' = [attempts EXCEPT ![r] = @ + 1]
                        /\ UNCHANGED <<exit, fate>>
    /\ UNCHANGED <<self, resVars, encVars, ctorVars, producerVars, _response, dequeued>>

\* what urlopen may come back with: a response object, an HTTPError or a
\* URLError; body is the set of the markers the body text contains
Responses ==
    { [kind |-> "response", code |-> 204, body |-> {}],
      [kind |-> "response", code |-> 200, body |-> {"results"}],
      [kind |-> "response", code |-> 200, body |-> {}],
      [kind |-> "HTTPError", code |-> 404, body |-> {"error", "bucket not found"}],
      [kind |-> "HTTPError", code |-> 404, body |-> {"error", "database not found"}],
      [kind |-> "HTTPError", code |-> 500, body |-> {"error"}],
      [kind |-> "URLError", code |-> 0, body |-> {}] }

\* payload.find(marker) >= 0
Find(payload, marker) == marker \in payload

\* check_response accepting every 2xx response
check_response_Any2xx(response) == "ok"

\* InfluxThread.check_response(response): returns ("ok") or raises FailedPost
check_response(response) ==
    IF response.code = 204 THEN "ok"
    ELSE IF Find(response.body, "results") THEN "ok"
    ELSE "FailedPost"

\* handle_exception that also aborts on "bucket not found"
handle_exception_Bucket(e) ==
    IF /\ e.kind = "HTTPError"
       /\ Find(e.body, "error")
       /\ (Find(e.body, "database not found") \/ Find(e.body, "bucket not found"))
    THEN "AbortedPost"
    ELSE "retry"

\* InfluxThread.handle_exception(e, count): raises AbortedPost, or returns
\* after the superclass has logged the failed attempt ("retry")
handle_exception(e) ==
    IF e.kind = "HTTPError" /\ Find(e.body, "error") /\ Find(e.body, "database not found")
    THEN "AbortedPost"
    ELSE "retry"

\* one pass of the loop of post_with_retries: "done", "retry" or "AbortedPost".
\* FailedPost is an IOError, so the FailedPost of check_response is caught by
\* the loop's except clause and handed to handle_exception.
PostOnce(resp) ==
    IF resp.kind = "response"
    THEN IF 200 <= resp.code /\ resp.code <= 299
         THEN IF check_response(resp) = "ok" THEN "done"
              ELSE handle_exception([kind |-> "FailedPost", code |-> 0, body |-> {}])
         ELSE "retry"
    ELSE handle_exception(resp)

\* the POST in flight ends: post_request returns a response or raises
PostReturns ==
    /\ pc = "sending"
    /\ _response' \in Responses
    /\ pc' = "received"
    /\ UNCHANGED <<self, resVars, encVars, ctorVars, producerVars, cur, count, lastpost, exit,
                   dequeued, fate, attempts>>

\* the rest of the pass of post_with_retries and, when the loop is left,
\* the except clauses of run_loop
HandleOutcome ==
    /\ pc = "received"
    /\ LET r == cur.id
           out == PostOnce(_response)
       IN  IF out = "done" THEN Finish(r, "delivered")
           ELSE IF out = "AbortedPost" THEN Finish(r, "aborted")
           ELSE IF count + 1 < self.max_tries
           THEN /\ pc' = "sleeping"
                /\ count' = count + 1
                /\ UNCHANGED <<cur, fate>>
           ELSE Finish(r, "abandoned")
    /\ _response' = None
    /\ UNCHANGED <<self, resVars, encVars, ctorVars, producerVars, lastpost, exit, dequeued, attempts>>

\* time.sleep(self.retry_wait) is over: the next POST is sent
Wake ==
    /\ pc = "sleeping"
    /\ pc' = "sending"
    /\ attempts' = [attempts EXCEPT ![cur.id] = @ + 1]
    /\ UNCHANGED <<self, resVars, encVars, ctorVars, producerVars, cur, count, _response, lastpost, exit,
                   dequeued, fate>>

\* the threads the worker runs are built with
DefaultEncoder ==
    [measurement |-> "record", tags |-> "", obs_to_upload |-> "most",
     append_units_label |-> TRUE, inputs |-> <<>>, line_format |-> "single-line"]
SelectiveEncoder ==
    [DefaultEncoder EXCEPT !.obs_to_upload = "none",
                           !.inputs = << <<"outTemp", EmptyDict>> >>]
BaseWorker ==
    [max_tries |-> MaxTries, max_backlog |-> MAX_SIZE, stale |-> None, post_interval |-> None,
     skip_upload |-> FALSE]
WorkerThreads ==
    { Thread(DefaultEncoder, BaseWorker),
      Thread(SelectiveEncoder, BaseWorker),
      Thread(DefaultEncoder, [BaseWorker EXCEPT !.max_tries = 1]),
      Thread(DefaultEncoder, [BaseWorker EXCEPT !.max_backlog = 1]),
      Thread(DefaultEncoder, [BaseWorker EXCEPT !.stale = IntV(0)]),
      Thread(SelectiveEncoder, [BaseWorker EXCEPT !.max_backlog = 0, !.stale = IntV(1)]) }

Init ==
    /\ self \in WorkerThreads
    /\ cfg_dict \in {c \in CfgDicts : /\ c.section /\ c.enable = "absent" /\ c.host = "absent"
                                      /\ c.binding \in {"loop", "archive", "loop,archive"}
                                      /\ Influx__init__(c).state = "started"}
    /\ svc = Influx__init__(cfg_dict)
    /\ EncIdle
    /\ ResIdle
    /\ WorkerIdle

Next ==
    \/ new_loop_packet
    \/ new_archive_record
    \/ PutSentinel
    \/ Tick
    \/ QueueGet
    \/ CheckBacklog
    \/ PostReturns
    \/ HandleOutcome
    \/ Wake

Spec == Init /\ [][Next]_vars

(***************************************************************************)
(* Properties of the worker and the handlers                               *)
(***************************************************************************)
\* the worker leaves the state in which it holds a response
OutcomeHandled == pc = "received" /\ pc' # "received"

\* an HTTPError whose body says the bucket or the database was not found
NotFoundError(r) ==
    /\ r.kind = "HTTPError"
    /\ ("bucket not found" \in r.body \/ "database not found" \in r.body)

DeliveredResponse(r) ==
    /\ r.kind = "response"
    /\ 200 <= r.code /\ r.code <= 299
    /\ (r.code = 204 \/ "results" \in r.body)
RetryableFailure(r) == ~DeliveredResponse(r) /\ ~NotFoundError(r)

\* C2: no record is POSTed more than max_tries times; an attempt that ends in
\* a retryable failure is followed by another attempt while fewer than
\* max_tries were made, and after the max_tries-th the record is abandoned
\* and the worker, still running, goes back to the queue.
C2_RetryExhaustion ==
    /\ [](\A r \in 1..MaxRecords : attempts[r] <= self.max_tries)
    /\ [][(OutcomeHandled /\ RetryableFailure(_response)) =>
             IF attempts[cur.id] < self.max_tries
             THEN pc' = "sleeping" /\ cur' = cur /\ fate' = fate
             ELSE /\ attempts[cur.id] = self.max_tries
                  /\ fate'[cur.id] = "abandoned"
                  /\ pc' = "get"
                  /\ exit' = ""]_vars

\* C2 witness: the first record was abandoned after max_tries > 1 POSTs and
\* the worker is POSTing the second
C2_Witness ==
    /\ self.max_tries = MaxTries
    /\ fate[1] = "abandoned"
    /\ attempts[1] = self.max_tries
    /\ pc = "sending"
    /\ cur.id = 2

\* C8: records are got in the order they were put; no record put behind the
\* sentinel is ever got, encoded or POSTed; and when run() returns on the
\* sentinel every record put ahead of it has been got and dealt with.
C8_SentinelEndsWorker ==
    /\ \A n \in DOMAIN dequeued : dequeued[n] = n
    /\ sentinelAt >= 0 =>
         \A r \in 1..MaxRecords :
            r > sentinelAt => (fate[r] \in {"none", "queued"} /\ attempts[r] = 0)
    /\ exit = "sentinel" =>
         /\ pc = "done"
         /\ Len(dequeued) = sentinelAt
         /\ \A r \in 1..sentinelAt : fate[r] \notin {"none", "queued", "current"}

\* C8 witness: run() has returned on the sentinel after delivering the
\* record ahead of it, and a record put behind the sentinel is still queued
C8_Witness ==
    /\ exit = "sentinel"
    /\ sentinelAt >= 1
    /\ fate[sentinelAt] = "delivered"
    /\ sentinelAt < MaxRecords
    /\ fate[sentinelAt + 1] = "queued"

\* the records in the queue
QueuedRecords == SelectSeq(queue, LAMBDA item : item # Sentinel)

\* C9 as stated: the number of queued records never exceeds max_backlog.
C9_QueueBounded == Len(QueuedRecords) <= self.max_backlog

\* C9 amended: the queue itself has no capacity limit; the backlog limit is
\* applied by the worker each time it has got a record: with more than
\* max_backlog items still queued the record just got, the oldest, is
\* discarded, and a record is processed only when at most max_backlog items
\* are queued behind it.
C9_BacklogTrimmedAtDequeue ==
    [][(pc = "check" /\ pc' # "check") =>
          IF Len(queue) > self.max_backlog
          THEN /\ fate'[cur.id] = "trimmed"
               /\ pc' = "get"
               /\ attempts' = attempts
               /\ \A n \in DOMAIN QueuedRecords : QueuedRecords[n].id > cur.id
          ELSE fate'[cur.id] # "trimmed"]_vars

\* C9 witness: the first record was discarded as backlog and the second
\* was POSTed
C9_Witness ==
    /\ fate[1] = "trimmed"
    /\ attempts[1] = 0
    /\ attempts[2] >= 1

\* C10: the engine's thread is never blocked in a handler and no handler
\* raises, whatever the worker is doing; every record handed to a handler
\* is on the queue or was got by the worker.
C10_HostNeverBlocked ==
    /\ host = "running"
    /\ Len(QueuedRecords) + Len(dequeued) = nextId - 1

\* C10 witness: a handler has put a record after the worker thread had
\* terminated on an exception, and returned
C10_Witness ==
    /\ putAfterExit
    /\ exit = "exception"
    /\ host = "running"
    /\ QueuedRecords # <<>>

\* the record the worker holds is older than now - stale
StaleRecord == self.stale # None /\ Get(cur.data, "dateTime").i < now - self.stale.i

\* C11: with a max age configured, a record got from the queue whose
\* timestamp is older than now - stale is dropped without a POST being made
\* for it, and the worker goes back to the queue for the next record.
C11_StaleNeverPosted ==
    /\ [](\A r \in 1..MaxRecords : fate[r] = "stale" => attempts[r] = 0)
    /\ [][(pc = "check" /\ pc' # "check" /\ StaleRecord) =>
             /\ fate'[cur.id] \in {"stale", "trimmed"}
             /\ attempts' = attempts
             /\ pc' = "get"
             /\ exit' = ""]_vars

\* C11 witness: the first record was dropped as stale without a POST and the
\* worker has POSTed the second record since
C11_Witness ==
    /\ fate[1] = "stale"
    /\ attempts[1] = 0
    /\ attempts[2] >= 1

\* the record numbers still on the queue
QueuedIds == {QueuedRecords[n].id : n \in DOMAIN QueuedRecords}

\* C12 as stated: a record the worker has got is delivered, dropped as stale
\* or abandoned after max_tries, or it has made the worker stop; it is not
\* on the queue again and is not delivered twice.
C12_RecordFate ==
    /\ [](\A n \in DOMAIN dequeued :
            LET r == dequeued[n]
            IN  /\ \/ fate[r] \in {"current", "delivered", "stale", "abandoned"}
                   \/ pc = "done" /\ exit = "exception"
                /\ r \notin QueuedIds)
    /\ [][\A r \in 1..MaxRecords : fate[r] = "delivered" =>
             (fate'[r] = "delivered" /\ attempts'[r] = attempts[r])]_vars

\* what a record the worker is done with has come to
FinalFates == {"delivered", "trimmed", "stale", "wait", "skipped", "aborted", "abandoned",
               "crashed"}

\* C12 amended: a record the worker has got is, until the worker is done
\* with it, the one record the worker holds, and then ends in exactly one
\* of: delivered (after 1..max_tries POSTs); dropped without a POST
\* (discarded as backlog, stale, inside post_interval, or skip_upload);
\* skipped on "database not found", the worker continuing; abandoned after
\* max_tries POSTs; or the worker thread has terminated on an exception
\* raised while encoding it.  It is got once, is never on the queue again,
\* and once it has ended no further POST is made for it.
C12_RecordFateOutcomes ==
    /\ [](\A n \in DOMAIN dequeued :
            LET r == dequeued[n]
            IN  /\ fate[r] \in FinalFates \cup {"current"}
                /\ fate[r] = "current" <=> (cur # None /\ cur.id = r)
                /\ fate[r] = "crashed" => (pc = "done" /\ exit = "exception")
                /\ fate[r] = "delivered" => attempts[r] \in 1..self.max_tries
                /\ fate[r] \in {"trimmed", "stale", "wait", "skipped", "crashed"} => attempts[r] = 0
                /\ fate[r] = "abandoned" => attempts[r] = self.max_tries
                /\ r \notin QueuedIds
                /\ \A k \in DOMAIN dequeued : dequeued[k] = r => k = n)
    /\ [][\A r \in 1..MaxRecords : fate[r] \in FinalFates =>
             (fate'[r] = fate[r] /\ attempts'[r] = attempts[r])]_vars

\* C12 witness: the worker is done with two records, one abandoned after
\* max_tries POSTs and one delivered, and nothing is left on the queue
C12_Witness ==
    /\ fate[1] = "abandoned"
    /\ fate[2] = "delivered"
    /\ pc = "get"
    /\ queue = <<>>

\* C14: the record a handler puts on the queue is a copy of the event's
\* mapping whose binding field is "loop" for a loop event and "archive" for
\* an archive event, whatever keys the event's mapping holds, and the
\* event's mapping is as the engine dispatched it.
C14_BindingInjected ==
    \A n \in DOMAIN QueuedRecords :
        LET item == QueuedRecords[n]
        IN  /\ Has(item.data, "binding")
            /\ Get(item.data, "binding") = StrV(item.via)
            /\ KeySet(item.data) = KeySet(item.event) \cup {"binding"}
            /\ \A k \in KeySet(item.event) \ {"binding"} :
                   Get(item.data, k) = Get(item.event, k)
            /\ Get(item.event, "dateTime").i \in 0..now

\* the queue and thread objects the service's attributes hold
ServiceQueues == {svc.loop_queue, svc.archive_queue} \ {0}
ServiceThreads == {svc.loop_thread, svc.archive_thread} \ {0}

\* C18: whatever the binding set, one worker thread and one queue serve the
\* destination; loop and archive records are got in the order they were
\* put, one at a time, and at most one record has a POST in flight.
C18_SingleConsumer ==
    /\ svc.thread_started
    /\ Cardinality(ServiceQueues) = 1
    /\ Cardinality(ServiceThreads) = 1
    /\ svc.bound = BindingsOf(cfg_dict.binding)
    /\ \A n \in DOMAIN dequeued : dequeued[n] = n
    /\ \A i, j \in DOMAIN QueuedRecords :
          i < j => QueuedRecords[i].id < QueuedRecords[j].id
    /\ \A r \in QueuedIds : r > Len(dequeued)
    /\ Cardinality({r \in 1..MaxRecords : fate[r] = "current"}) <= 1
    /\ pc \in {"sending", "received", "sleeping"} =>
          (cur # None /\ fate[cur.id] = "current" /\ dequeued[Len(dequeued)] = cur.id)

\* C18 witness: with both bindings configured, the POST of a loop record is
\* in flight while an archive record put after it waits on the same queue
C18_Witness ==
    /\ cfg_dict.binding = "loop,archive"
    /\ pc = "sending"
    /\ cur.via = "loop"
    /\ QueuedRecords # <<>>
    /\ QueuedRecords[1].via = "archive"
    /\ QueuedRecords[1].id = cur.id + 1

====
